---- MODULE Spec2Model ----
(***************************************************************************)
(* Model of ntest (kayahr/ntest): the CLI wrapper that reads a             *)
(* configuration, merges command-line flags over it, translates the merged *)
(* options into Node test-runner parameters and spawns Node.               *)
(*                                                                         *)
(* Text.  A JavaScript string is modelled as a sequence of characters.     *)
(* A run of letters that no string operation of the program ever looks     *)
(* into ("watch", "--test-shard=", "foo") is written as one character, so  *)
(* the operations that do look into strings (split at ":", trim, Number,   *)
(* parseInt, the "--"/"-"/"=" tokenizer of parseArgs) work on the          *)
(* characters they inspect.  Str(t) gives the string as one TLA+ string.   *)
(*                                                                         *)
(* Optional values.  A value that may be undefined or null is a sequence   *)
(* of length 0 (nullish) or 1 (the value).                                 *)
(***************************************************************************)
EXTENDS Integers, Sequences, FiniteSets, TLC

VARIABLES
    pc,          \* position of main: see the actions
    args,        \* the argument vector given to main (sequence of Text)
    nodeVersionText, \* process.versions.node (Text)
    fs,          \* the file system main reads: the working directory and the files
    child,       \* what the spawned node process may do: see ChildClose, ChildError
    values,      \* parseArgs(...).values
    positionals, \* parseArgs(...).positionals
    searchDir,   \* findPackageRoot: depth of the directory examined next
    examined,    \* findPackageRoot: the directories examined so far, in order
    configPath,  \* readConfig: the file the configuration is read from
    options,     \* the options object (configuration, then merged)
    config,      \* the configuration as read, before the merge
    spawned,     \* the cp.spawn calls made so far: sequence of parameter lists
    events,      \* the child's events emitted so far, in order
    piped,       \* what the child wrote so far, forwarded to io.stdout and io.stderr
    promise,     \* the promise of spawnNode: pending, resolved or rejected
    stdout,      \* texts written to io.stdout by main
    stderr,      \* texts written to io.stderr by main
    result       \* return value of main: <<>> while running, <<0>> or <<1>>

vars == << pc, args, nodeVersionText, fs, child, values, positionals, searchDir, examined,
           configPath, options, config, spawned, events, piped, promise, stdout, stderr,
           result >>

------------------------------------------------------------------------------
(* Text helpers *)

Digits == << "0", "1", "2", "3", "4", "5", "6", "7", "8", "9" >>

IsDigit(c) == \E i \in 1..Len(Digits) : Digits[i] = c

DigitValue(c) == (CHOOSE i \in 1..Len(Digits) : Digits[i] = c) - 1

\* characters String.prototype.trim removes
IsWhitespace(c) == c \in { " ", "\t", "\n" }

\* a JavaScript number that is not a number; the model's numbers are >= 0
NaN == 0 - 1

RECURSIVE Str(_)
\* the text as one string
Str(t) == IF t = << >> THEN "" ELSE Head(t) \o Str(Tail(t))

RECURSIVE DigitsValue(_, _)
DigitsValue(t, acc) ==
    IF t = << >> THEN acc ELSE DigitsValue(Tail(t), acc * 10 + DigitValue(Head(t)))

\* Number(text): "" is 0, a run of digits is its value, anything else is NaN
Number(t) ==
    IF \A i \in 1..Len(t) : IsDigit(t[i]) THEN DigitsValue(t, 0) ELSE NaN

RECURSIVE LeadingDigits(_)
LeadingDigits(t) ==
    IF t = << >> \/ ~IsDigit(Head(t)) THEN << >> ELSE << Head(t) >> \o LeadingDigits(Tail(t))

\* parseInt(text): the value of the leading digits, NaN when there are none
ParseInt(t) ==
    IF LeadingDigits(t) = << >> THEN NaN ELSE DigitsValue(LeadingDigits(t), 0)

RECURSIVE NatText(_)
NatText(n) ==
    IF n < 10 THEN << Digits[n + 1] >> ELSE NatText(n \div 10) \o << Digits[(n % 10) + 1] >>

\* `${number}`
NumText(n) == IF n = NaN THEN << "NaN" >> ELSE NatText(n)

RECURSIVE Trim(_)
\* text.trim()
Trim(t) ==
    IF t = << >> THEN << >>
    ELSE IF IsWhitespace(Head(t)) THEN Trim(Tail(t))
    ELSE IF IsWhitespace(t[Len(t)]) THEN Trim(SubSeq(t, 1, Len(t) - 1))
    ELSE t

\* index of the first ":" of the text, 0 when there is none
FirstColon(t) ==
    IF \E i \in 1..Len(t) : t[i] = ":"
    THEN CHOOSE i \in 1..Len(t) : t[i] = ":" /\ \A j \in 1..(i - 1) : t[j] # ":"
    ELSE 0

RECURSIVE Split(_)
\* text.split(":"): the pieces between the colons, at least one piece
Split(t) ==
    IF FirstColon(t) = 0 THEN << t >>
    ELSE << SubSeq(t, 1, FirstColon(t) - 1) >> \o Split(SubSeq(t, FirstColon(t) + 1, Len(t)))

RECURSIVE JoinColon(_)
\* pieces.join(":")
JoinColon(ps) ==
    IF ps = << >> THEN << >>
    ELSE IF Len(ps) = 1 THEN ps[1]
    ELSE ps[1] \o << ":" >> \o JoinColon(Tail(ps))

------------------------------------------------------------------------------
(* Values of the options object *)

\* a string value and an array-of-strings value of a "string | string[]" field
StrVal(t) == [ kind |-> "str", s |-> t, items |-> << >> ]
ArrVal(ts) == [ kind |-> "arr", s |-> << >>, items |-> ts ]

\* x ?? []
OrEmptyArray(x) == IF x = << >> THEN ArrVal(<< >>) ELSE x[1]

RECURSIVE FlatSpread(_)
\* Flat spreading a string too, into its characters
FlatSpread(a) ==
    IF a = << >> THEN << >>
    ELSE (IF Head(a).kind = "arr" THEN Head(a).items
          ELSE [ i \in 1..Len(Head(a).s) |-> << Head(a).s[i] >> ]) \o FlatSpread(Tail(a))

RECURSIVE Flat(_)
\* array.flat(): an element that is an array is replaced by its elements
Flat(a) ==
    IF a = << >> THEN << >>
    ELSE (IF Head(a).kind = "arr" THEN Head(a).items ELSE << Head(a).s >>) \o Flat(Tail(a))

\* [ x ?? [] ].flat()
FlatList(x) == Flat(<< OrEmptyArray(x) >>)

EmptyCoverage ==
    [ enabled |-> << >>, include |-> << >>, exclude |-> << >>,
      lines |-> << >>, branches |-> << >>, functions |-> << >> ]

\* the options object {}
EmptyOptions ==
    [ files |-> << >>, reporter |-> << >>, concurrency |-> << >>, isolation |-> << >>,
      moduleMocks |-> << >>, forceExit |-> << >>, globalSetup |-> << >>, only |-> << >>,
      shard |-> << >>, testPattern |-> << >>, skipPattern |-> << >>, timeout |-> << >>,
      updateSnapshots |-> << >>, rerunFailures |-> << >>, watch |-> << >>,
      coverage |-> << >> ]

------------------------------------------------------------------------------
(* runNodeTest: translation of the options into Node parameters *)

\* `${prefix}${value}`
Param(prefix, valueText) == << prefix >> \o valueText

RECURSIVE ParamEach(_, _)
\* one parameter per entry of the list, in list order
ParamEach(prefix, ts) ==
    IF ts = << >> THEN << >>
    ELSE << Param(prefix, Head(ts)) >> \o ParamEach(prefix, Tail(ts))

\* a parameter carrying the string when the field is not nullish
ParamIfSet(prefix, x) == IF x # << >> THEN << Param(prefix, x[1]) >> ELSE << >>

\* a parameter carrying the number when the field is not nullish
ParamIfSetNum(prefix, x) == IF x # << >> THEN << Param(prefix, NumText(x[1])) >> ELSE << >>

\* a parameter without value when the field is exactly true
ParamIfTrue(name, x) == IF x = << TRUE >> THEN << << name >> >> ELSE << >>

\* CoverageEnabled as "coverage?.enabled !== false"
CoverageEnabledUnlessFalse(coverage) == coverage # << >> /\ coverage[1].enabled # << FALSE >>

\* coverage?.enabled === true
CoverageEnabled(coverage) == coverage # << >> /\ coverage[1].enabled = << TRUE >>

CoverageParams(coverage) ==
    IF CoverageEnabled(coverage)
    THEN << << "--experimental-test-coverage" >> >>
         \o ParamEach("--test-coverage-exclude=", FlatList(coverage[1].exclude))
         \o ParamEach("--test-coverage-include=", FlatList(coverage[1].include))
         \o ParamIfSetNum("--test-coverage-branches=", coverage[1].branches)
         \o ParamIfSetNum("--test-coverage-functions=", coverage[1].functions)
         \o ParamIfSetNum("--test-coverage-lines=", coverage[1].lines)
    ELSE << >>

\* Destination without the trim: only an absent or empty destination is "stdout"
DestinationUntrimmed(reporter) ==
    IF reporter.destination = << >> \/ reporter.destination[1] = << >>
    THEN << "stdout" >>
    ELSE reporter.destination[1]

\* reporter.destination == null || reporter.destination.trim() === "" ? "stdout" : reporter.destination
Destination(reporter) ==
    IF reporter.destination = << >> \/ Trim(reporter.destination[1]) = << >>
    THEN << "stdout" >>
    ELSE reporter.destination[1]

RECURSIVE ReporterList(_)
ReporterList(rs) ==
    IF rs = << >> THEN << >>
    ELSE << Param("--test-reporter=", Head(rs).name),
            Param("--test-reporter-destination=", Destination(Head(rs))) >>
         \o ReporterList(Tail(rs))

\* for (const reporter of options?.reporter ?? [])
ReporterParams(reporter) == IF reporter = << >> THEN << >> ELSE ReporterList(reporter[1])

PatternParams(opts) ==
    ParamEach("--test-name-pattern=", FlatList(opts.testPattern))
    \o ParamEach("--test-skip-pattern=", FlatList(opts.skipPattern))

\* the major version from which the isolation parameter is no longer experimental
StableIsolationVersion == 24

\* IsolationParams with the comparison "nodeVersion <= 24"
IsolationParamsUpTo(isolation, nodeVersion) ==
    IF isolation # << >>
    THEN IF nodeVersion # NaN /\ nodeVersion <= StableIsolationVersion
         THEN << Param("--experimental-test-isolation=", isolation[1]) >>
         ELSE << Param("--test-isolation=", isolation[1]) >>
    ELSE << >>

IsolationParams(isolation, nodeVersion) ==
    IF isolation # << >>
    THEN IF nodeVersion # NaN /\ nodeVersion < StableIsolationVersion
         THEN << Param("--experimental-test-isolation=", isolation[1]) >>
         ELSE << Param("--test-isolation=", isolation[1]) >>
    ELSE << >>

OtherParams(opts) ==
    ParamIfTrue("--experimental-test-module-mocks", opts.moduleMocks)
    \o ParamIfSetNum("--test-concurrency=", opts.concurrency)
    \o ParamIfTrue("--test-force-exit", opts.forceExit)
    \o ParamIfTrue("--test-only", opts.only)
    \o ParamIfSet("--test-shard=", opts.shard)
    \o ParamIfSetNum("--test-timeout=", opts.timeout)
    \o ParamIfTrue("--test-update-snapshots", opts.updateSnapshots)
    \o ParamIfSet("--test-rerun-failures=", opts.rerunFailures)
    \o ParamIfSet("--test-global-setup=", opts.globalSetup)
    \o ParamIfTrue("--watch", opts.watch)

\* for (const pattern of [ options?.files ?? []].flat())
FileParams(files) == FlatList(files)

\* BuildParams with the isolation parameter pushed after the other single options
BuildParamsIsolationLate(opts, nodeVersion) ==
    << << "--test" >> >>
    \o CoverageParams(opts.coverage)
    \o ReporterParams(opts.reporter)
    \o PatternParams(opts)
    \o OtherParams(opts)
    \o IsolationParams(opts.isolation, nodeVersion)
    \o FileParams(opts.files)

\* the params array runNodeTest hands to spawnNode
BuildParams(opts, nodeVersion) ==
    << << "--test" >> >>
    \o CoverageParams(opts.coverage)
    \o ReporterParams(opts.reporter)
    \o PatternParams(opts)
    \o IsolationParams(opts.isolation, nodeVersion)
    \o OtherParams(opts)
    \o FileParams(opts.files)

RECURSIVE StrEach(_)
\* each text of the list as one string
StrEach(ts) == IF ts = << >> THEN << >> ELSE << Str(Head(ts)) >> \o StrEach(Tail(ts))

------------------------------------------------------------------------------
(* parseArgs of node:util, as main configures it: strict, allowPositionals, *)
(* allowNegative, and the options of main                                    *)

BooleanOptions ==
    { "coverage", "force-exit", "module-mocks", "only", "update-snapshots", "watch",
      "help", "version" }

MultipleOptions ==
    { "coverage-exclude", "coverage-include", "reporter", "skip-pattern", "test-pattern" }

StringOptions ==
    { "config", "concurrency", "coverage-branches", "coverage-functions", "coverage-lines",
      "global-setup", "isolation", "rerun-failures", "shard", "timeout" } \cup MultipleOptions

OptionNames == BooleanOptions \cup StringOptions

\* the short: entries of the options
ShortOptions ==
    ("c" :> "config") @@ ("s" :> "skip-pattern") @@ ("t" :> "test-pattern")
    @@ ("u" :> "update-snapshots") @@ ("w" :> "watch")

\* values before any option is stored: every key is undefined
NoValues == [ o \in OptionNames |-> << >> ]

\* index of the first "=" of the argument, 0 when there is none
FirstEquals(arg) ==
    IF \E i \in 1..Len(arg) : arg[i] = "="
    THEN CHOOSE i \in 1..Len(arg) : arg[i] = "=" /\ \A j \in 1..(i - 1) : arg[j] # "="
    ELSE 0

IsTerminator(arg) == arg = << "--" >>

IsLoneShortOption(arg) == Len(arg) = 2 /\ arg[1] = "-"

IsLoneLongOption(arg) == Len(arg) > 1 /\ arg[1] = "--" /\ FirstEquals(arg) = 0

IsLongOptionAndValue(arg) == Len(arg) > 1 /\ arg[1] = "--" /\ FirstEquals(arg) > 2

\* a value that looks like an option: longer than one character and starting with "-"
IsOptionLikeValue(v) == v # << >> /\ (v[1] = "--" \/ (v[1] = "-" /\ Len(v) > 1))

\* the option name an argument names: a known key, "no-" and a key, or something unknown
LongName(nameText) ==
    IF Len(nameText) = 1 /\ nameText[1] \in OptionNames
    THEN [ known |-> TRUE, key |-> nameText[1], negated |-> FALSE ]
    ELSE IF Len(nameText) = 2 /\ nameText[1] = "no-" /\ nameText[2] \in BooleanOptions
    THEN [ known |-> TRUE, key |-> nameText[2], negated |-> TRUE ]
    ELSE [ known |-> FALSE, key |-> "", negated |-> FALSE ]

ShortName(c) ==
    IF c \in DOMAIN ShortOptions
    THEN [ known |-> TRUE, key |-> ShortOptions[c], negated |-> FALSE ]
    ELSE [ known |-> FALSE, key |-> "", negated |-> FALSE ]

\* the option token of the argument at position i: its name, its value (inline, taken
\* from the next argument, or none) and the number of arguments it uses
OptionToken(argv, i) ==
    LET arg == argv[i]
        eq == FirstEquals(arg)
        name == IF IsLoneShortOption(arg) THEN ShortName(arg[2])
                ELSE IF IsLoneLongOption(arg) THEN LongName(Tail(arg))
                ELSE LongName(SubSeq(arg, 2, eq - 1))
        inline == IsLongOptionAndValue(arg)
        takesNext == ~inline /\ name.known /\ ~name.negated /\ name.key \in StringOptions
                     /\ i < Len(argv)
    IN  [ name |-> name, raw |-> arg, inline |-> inline,
          value |-> IF inline THEN << SubSeq(arg, eq + 1, Len(arg)) >>
                    ELSE IF takesNext THEN << argv[i + 1] >>
                    ELSE << >>,
          used |-> IF takesNext THEN 2 ELSE 1 ]

UnknownOption(raw) == << "Unknown option '" >> \o raw \o << "'" >>
ArgumentMissing(raw) == << "Option '" >> \o raw \o << " <value>' argument missing" >>
NoArgument(raw) == << "Option '" >> \o raw \o << "' does not take an argument" >>
AmbiguousValue(raw) == << "Option '" >> \o raw \o << "' argument is ambiguous" >>

\* checkOptionUsage and checkOptionLikeValue: the message of the error thrown, none if valid
OptionError(tok) ==
    IF ~tok.name.known THEN << UnknownOption(tok.raw) >>
    ELSE IF tok.name.key \in StringOptions /\ tok.value = << >> THEN << ArgumentMissing(tok.raw) >>
    ELSE IF tok.name.key \in BooleanOptions /\ tok.value # << >> THEN << NoArgument(tok.raw) >>
    ELSE IF ~tok.inline /\ tok.value # << >> /\ IsOptionLikeValue(tok.value[1])
    THEN << AmbiguousValue(tok.raw) >>
    ELSE << >>

\* storeOption: a multiple option collects its values, any other keeps the last one
StoreOption(vals, tok) ==
    LET key == tok.name.key
        newValue == IF tok.value # << >> THEN tok.value[1] ELSE ~tok.name.negated
    IN  IF key \in MultipleOptions
        THEN [ vals EXCEPT ![key] = IF @ = << >> THEN << << newValue >> >>
                                    ELSE << Append(@[1], newValue) >> ]
        ELSE [ vals EXCEPT ![key] = << newValue >> ]

RECURSIVE ParseFrom(_, _, _)
\* the arguments from position i on, given what the earlier arguments gave
ParseFrom(argv, i, acc) ==
    IF i > Len(argv) \/ acc.error # << >> THEN acc
    ELSE IF IsTerminator(argv[i])
    THEN [ acc EXCEPT !.positionals = @ \o SubSeq(argv, i + 1, Len(argv)) ]
    ELSE IF IsLoneShortOption(argv[i]) \/ IsLoneLongOption(argv[i]) \/ IsLongOptionAndValue(argv[i])
    THEN LET tok == OptionToken(argv, i)
         IN  IF OptionError(tok) # << >>
             THEN [ acc EXCEPT !.error = OptionError(tok) ]
             ELSE ParseFrom(argv, i + tok.used, [ acc EXCEPT !.values = StoreOption(@, tok) ])
    ELSE ParseFrom(argv, i + 1, [ acc EXCEPT !.positionals = Append(@, argv[i]) ])

\* parseArgs({ args, allowPositionals: true, allowNegative: true, strict: true, options })
ParseArgs(argv) ==
    ParseFrom(argv, 1, [ values |-> NoValues, positionals |-> << >>, error |-> << >> ])

------------------------------------------------------------------------------
(* main: command-line values written over the configuration *)

\* ParseReporter as "const [ name, destination ] = reporter.split(':')"
ParseReporterTwoPieces(v) ==
    [ name |-> Head(Split(v)),
      destination |-> << IF Len(Split(v)) > 1 THEN Split(v)[2] ELSE << >> >> ]

\* reporter.split(":") into [ name, ...destination ] and destination.join(":")
ParseReporter(v) ==
    [ name |-> Head(Split(v)), destination |-> << JoinColon(Tail(Split(v))) >> ]

RECURSIVE ParseReporters(_)
\* values.reporter.map(...)
ParseReporters(vs) ==
    IF vs = << >> THEN << >> ELSE << ParseReporter(Head(vs)) >> \o ParseReporters(Tail(vs))

\* a value of the command line if there is one, else what the field holds
Over(vals, key, old) == IF vals[key] # << >> THEN vals[key] ELSE old

\* the same for a numeric option: Number(value)
OverNum(vals, key, old) == IF vals[key] # << >> THEN << Number(vals[key][1]) >> ELSE old

\* OverList pushing the values of the command line onto the configured ones
OverListAppend(vals, key, old) ==
    IF vals[key] # << >> THEN << ArrVal(FlatList(old) \o vals[key][1]) >> ELSE old

\* the same for an option collecting an array of strings
OverList(vals, key, old) == IF vals[key] # << >> THEN << ArrVal(vals[key][1]) >> ELSE old

\* MergeCoverage replacing the whole record once a coverage flag is given
MergeCoverageWhole(coverage, vals) ==
    LET given == \E k \in { "coverage", "coverage-branches", "coverage-functions",
                             "coverage-lines", "coverage-exclude", "coverage-include" } :
                     vals[k] # << >>
        c == IF coverage = << >> \/ given THEN EmptyCoverage ELSE coverage[1]
    IN  [ enabled   |-> Over(vals, "coverage", c.enabled),
          branches  |-> OverNum(vals, "coverage-branches", c.branches),
          functions |-> OverNum(vals, "coverage-functions", c.functions),
          lines     |-> OverNum(vals, "coverage-lines", c.lines),
          exclude   |-> OverList(vals, "coverage-exclude", c.exclude),
          include   |-> OverList(vals, "coverage-include", c.include) ]

\* options.coverage ??= {} and the coverage overrides
MergeCoverage(coverage, vals) ==
    LET c == IF coverage = << >> THEN EmptyCoverage ELSE coverage[1]
    IN  [ enabled   |-> Over(vals, "coverage", c.enabled),
          branches  |-> OverNum(vals, "coverage-branches", c.branches),
          functions |-> OverNum(vals, "coverage-functions", c.functions),
          lines     |-> OverNum(vals, "coverage-lines", c.lines),
          exclude   |-> OverList(vals, "coverage-exclude", c.exclude),
          include   |-> OverList(vals, "coverage-include", c.include) ]

\* MergeFiles putting the positional arguments in front of the configured files
MergeFilesInFront(files, pos) ==
    IF Len(pos) > 0 THEN << ArrVal(pos \o FlatList(files)) >> ELSE files

\* if (positionals.length > 0) options.files = positionals
MergeFiles(files, pos) == IF Len(pos) > 0 THEN << ArrVal(pos) >> ELSE files

\* the options object after "Overwrite config entries with command line options"
MergeOptions(cfg, vals, pos) ==
    [ coverage        |-> << MergeCoverage(cfg.coverage, vals) >>,
      concurrency     |-> OverNum(vals, "concurrency", cfg.concurrency),
      forceExit       |-> Over(vals, "force-exit", cfg.forceExit),
      globalSetup     |-> Over(vals, "global-setup", cfg.globalSetup),
      isolation       |-> Over(vals, "isolation", cfg.isolation),
      only            |-> Over(vals, "only", cfg.only),
      moduleMocks     |-> Over(vals, "module-mocks", cfg.moduleMocks),
      reporter        |-> IF vals["reporter"] # << >>
                          THEN << ParseReporters(vals["reporter"][1]) >>
                          ELSE cfg.reporter,
      rerunFailures   |-> Over(vals, "rerun-failures", cfg.rerunFailures),
      shard           |-> Over(vals, "shard", cfg.shard),
      skipPattern     |-> OverList(vals, "skip-pattern", cfg.skipPattern),
      testPattern     |-> OverList(vals, "test-pattern", cfg.testPattern),
      timeout         |-> OverNum(vals, "timeout", cfg.timeout),
      updateSnapshots |-> Over(vals, "update-snapshots", cfg.updateSnapshots),
      watch           |-> Over(vals, "watch", cfg.watch),
      files           |-> MergeFiles(cfg.files, pos) ]

------------------------------------------------------------------------------
(* The file system.  A directory is the sequence of its names from the      *)
(* filesystem root; fs.files maps the path of every existing file to        *)
(* whether it parses as JSON and, if so, to its document: the option fields *)
(* at its top level and its "ntest" property.                               *)

RECURSIVE PathText(_)
PathText(names) ==
    IF names = << >> THEN << >> ELSE << "/", Head(names) >> \o PathText(Tail(names))

\* the path of a directory: "/" for the filesystem root
DirText(dir) == IF dir = << >> THEN << "/" >> ELSE PathText(dir)

\* join(dir, name)
JoinPath(dir, name) == PathText(Append(dir, name))

\* Dirname that goes up two directories at once
DirnameTwoUp(dir) == IF Len(dir) < 2 THEN << >> ELSE SubSeq(dir, 1, Len(dir) - 2)

\* dirname(dir): the filesystem root is its own parent
Dirname(dir) == IF dir = << >> THEN dir ELSE SubSeq(dir, 1, Len(dir) - 1)

\* access(path) succeeds
FileExists(path) == path \in DOMAIN fs.files

\* the default config file locations to look for
defaultConfigLocations == << "ntest.json", ".ntest.json" >>

\* an Error with this message
Error(message) == [ isError |-> TRUE, message |-> message ]

\* getErrorMessage(error): the message of an Error, String(error) of anything else
getErrorMessage(error) == error.message

\* what readFile or JSON.parse throws for the path, none when the file reads and parses
ReadError(path) ==
    IF ~FileExists(path)
    THEN << Error(<< "ENOENT: no such file or directory, open '" >> \o path \o << "'" >>) >>
    ELSE IF ~fs.files[path].parses
    THEN << Error(<< "Unexpected end of JSON input" >>) >>
    ELSE << >>

\* the error readConfig throws for a configuration file that cannot be read
ConfigError(path, cause) ==
    Error(<< "Error while reading config '" >> \o path \o << "': " >> \o getErrorMessage(cause))

commandName == "ntest"

help == << "Usage: ", commandName, " [OPTION]... [FILES]...\n" >>

version == << commandName, " ", "1.0.0", "\n" >>

------------------------------------------------------------------------------
(* main, step by step *)

\* Fail with the error written as it is, without the name of the command
FailUnprefixed(error) ==
    /\ stderr' = Append(stderr, getErrorMessage(error) \o << "\n" >>)
    /\ result' = << 1 >>
    /\ pc' = "done"

\* the catch block of main
Fail(error) ==
    /\ stderr' = Append(stderr, << commandName, ": " >> \o getErrorMessage(error) \o << "\n" >>)
    /\ result' = << 1 >>
    /\ pc' = "done"

\* const { values, positionals } = parseArgs(...)
Parse ==
    /\ pc = "start"
    /\ LET r == ParseArgs(args)
       IN  IF r.error # << >>
           THEN /\ Fail(Error(r.error[1]))
                /\ UNCHANGED << values, positionals >>
           ELSE /\ values' = r.values
                /\ positionals' = r.positionals
                /\ pc' = "parsed"
                /\ UNCHANGED << stderr, result >>
    /\ UNCHANGED << args, nodeVersionText, fs, child, searchDir, examined, configPath,
                    options, config, spawned, events, piped, promise, stdout >>

\* if (values.help === true)
ShowHelp ==
    /\ pc = "parsed"
    /\ values["help"] = << TRUE >>
    /\ stdout' = Append(stdout, help)
    /\ result' = << 0 >>
    /\ pc' = "done"
    /\ UNCHANGED << args, nodeVersionText, fs, child, values, positionals, searchDir,
                    examined, configPath, options, config, spawned, events, piped,
                    promise, stderr >>

\* if (values.version === true)
ShowVersion ==
    /\ pc = "parsed"
    /\ values["help"] # << TRUE >>
    /\ values["version"] = << TRUE >>
    /\ stdout' = Append(stdout, version)
    /\ result' = << 0 >>
    /\ pc' = "done"
    /\ UNCHANGED << args, nodeVersionText, fs, child, values, positionals, searchDir,
                    examined, configPath, options, config, spawned, events, piped,
                    promise, stderr >>

\* ReadConfig made before the help and version options are looked at
ReadConfigBeforeHelp ==
    /\ pc = "parsed"
    /\ IF values["config"] # << >>
       THEN /\ configPath' = values["config"][1]
            /\ pc' = "readFile"
            /\ UNCHANGED searchDir
       ELSE /\ searchDir' = fs.cwd
            /\ pc' = "findRoot"
            /\ UNCHANGED configPath
    /\ UNCHANGED << args, nodeVersionText, fs, child, values, positionals, examined,
                    options, config, spawned, events, piped, promise, stdout, stderr,
                    result >>

\* readConfig(values.config): the explicit file, or the search from the working directory
ReadConfig ==
    /\ pc = "parsed"
    /\ values["help"] # << TRUE >>
    /\ values["version"] # << TRUE >>
    /\ IF values["config"] # << >>
       THEN /\ configPath' = values["config"][1]
            /\ pc' = "readFile"
            /\ UNCHANGED searchDir
       ELSE /\ searchDir' = fs.cwd
            /\ pc' = "findRoot"
            /\ UNCHANGED configPath
    /\ UNCHANGED << args, nodeVersionText, fs, child, values, positionals, examined,
                    options, config, spawned, events, piped, promise, stdout, stderr, result >>

\* findPackageRoot(dir): one directory examined
FindPackageRoot ==
    /\ pc = "findRoot"
    /\ examined' = Append(examined, searchDir)
    /\ IF FileExists(JoinPath(searchDir, "package.json"))
       THEN /\ pc' = "defaults"
            /\ UNCHANGED << searchDir, stderr, result >>
       ELSE IF Dirname(searchDir) = searchDir
       THEN /\ Fail(Error(<< "Unable to locate package.json" >>))
            /\ UNCHANGED searchDir
       ELSE /\ searchDir' = Dirname(searchDir)
            /\ UNCHANGED << pc, stderr, result >>
    /\ UNCHANGED << args, nodeVersionText, fs, child, values, positionals, configPath,
                    options, config, spawned, events, piped, promise, stdout >>

\* ExistingDefaults with the hidden file tried first
ExistingDefaultsHiddenFirst(root) ==
    SelectSeq(<< defaultConfigLocations[2], defaultConfigLocations[1] >>,
              LAMBDA name : FileExists(JoinPath(root, name)))

\* the default locations that exist in the package root, in the order they are tried
ExistingDefaults(root) ==
    SelectSeq(defaultConfigLocations, LAMBDA name : FileExists(JoinPath(root, name)))

\* for (const configFile of defaultConfigLocations): the first that exists is read
FindDefaultConfig ==
    /\ pc = "defaults"
    /\ IF ExistingDefaults(searchDir) # << >>
       THEN /\ configPath' = JoinPath(searchDir, Head(ExistingDefaults(searchDir)))
            /\ pc' = "readFile"
       ELSE /\ pc' = "readPackage"
            /\ UNCHANGED configPath
    /\ UNCHANGED << args, nodeVersionText, fs, child, values, positionals, searchDir,
                    examined, options, config, spawned, events, piped, promise, stdout, stderr,
                    result >>

\* readConfig(configFile): JSON.parse(await readFile(configFile, "utf8"))
ReadConfigFile ==
    /\ pc = "readFile"
    /\ IF ReadError(configPath) # << >>
       THEN /\ Fail(ConfigError(configPath, ReadError(configPath)[1]))
            /\ UNCHANGED << config, options >>
       ELSE /\ config' = fs.files[configPath].doc.top
            /\ options' = fs.files[configPath].doc.top
            /\ pc' = "configured"
            /\ UNCHANGED << stderr, result >>
    /\ UNCHANGED << args, nodeVersionText, fs, child, values, positionals, searchDir,
                    examined, configPath, spawned, events, piped, promise, stdout >>

\* JSON.parse(await readFile(join(root, "package.json"), "utf8")).ntest ?? {}
ReadPackageJson ==
    /\ pc = "readPackage"
    /\ LET path == JoinPath(searchDir, "package.json")
           ntest == fs.files[path].doc.ntest
       IN  IF ReadError(path) # << >>
           THEN /\ Fail(ReadError(path)[1])
                /\ UNCHANGED << config, options >>
           ELSE /\ config' = (IF ntest # << >> THEN ntest[1] ELSE EmptyOptions)
                /\ options' = (IF ntest # << >> THEN ntest[1] ELSE EmptyOptions)
                /\ pc' = "configured"
                /\ UNCHANGED << stderr, result >>
    /\ UNCHANGED << args, nodeVersionText, fs, child, values, positionals, searchDir,
                    examined, configPath, spawned, events, piped, promise, stdout >>

\* the JSON document null: a configuration that parses and is no record
Null == [ null |-> TRUE ]

\* what "options.coverage ??= {}" throws: a TypeError when options is null
MergeError(cfg) ==
    IF cfg = Null
    THEN << Error(<< "Cannot read properties of null (reading 'coverage')" >>) >>
    ELSE << >>

\* "Overwrite config entries with command line options if present"
Merge ==
    /\ pc = "configured"
    /\ IF MergeError(options) # << >>
       THEN /\ Fail(MergeError(options)[1])
            /\ UNCHANGED options
       ELSE /\ options' = MergeOptions(options, values, positionals)
            /\ pc' = "merged"
            /\ UNCHANGED << stderr, result >>
    /\ UNCHANGED << args, nodeVersionText, fs, child, values, positionals, searchDir,
                    examined, configPath, config, spawned, events, piped, promise, stdout >>

\* runNodeTest(io, options) up to the await: the parameters are built and node is spawned
RunNodeTest ==
    /\ pc = "merged"
    /\ spawned' = Append(spawned, BuildParams(options, ParseInt(nodeVersionText)))
    /\ promise' = [ state |-> "pending", reason |-> Error(<< >>) ]
    /\ pc' = "waiting"
    /\ UNCHANGED << args, nodeVersionText, fs, child, values, positionals, searchDir,
                    examined, configPath, options, config, events, piped, stdout, stderr,
                    result >>

\* Settle by an outcome that the last call decides
SettleLast(p, state, reason) == [ state |-> state, reason |-> reason ]

\* a promise settles once: resolve and reject of a settled promise do nothing
Settle(p, state, reason) ==
    IF p.state = "pending" THEN [ state |-> state, reason |-> reason ] ELSE p

ChildAlive == spawned # << >> /\ \A i \in 1..Len(events) : events[i].type # "close"

\* child.on("error", reject): the handler runs for an error event whenever the child
\* emits one, before its close event or after it
ChildError ==
    /\ spawned # << >>
    /\ child.error # << >>
    /\ \A i \in 1..Len(events) : events[i].type # "error"
    /\ events' = Append(events, [ type |-> "error", code |-> << >> ])
    /\ promise' = Settle(promise, "rejected", Error(child.error[1]))
    /\ UNCHANGED << piped, pc, args, nodeVersionText, fs, child, values, positionals,
                    searchDir, examined, configPath, options, config, spawned, stdout,
                    stderr, result >>

\* child.stdout?.pipe(io.stdout) and child.stderr?.pipe(io.stderr), or the inherited
\* streams: what the child writes before it closes reaches the streams of io
ChildOutput ==
    /\ ChildAlive
    /\ Len(piped) < Len(child.output)
    /\ piped' = Append(piped, child.output[Len(piped) + 1])
    /\ UNCHANGED << pc, args, nodeVersionText, fs, child, values, positionals, searchDir,
                    examined, configPath, options, config, spawned, events, promise, stdout,
                    stderr, result >>

\* `${exitCode}`: the code of a process ended by a signal is null
CodeText(exitCode) == IF exitCode = << >> THEN << "null" >> ELSE NumText(exitCode[1])

\* OnClose with the test "!exitCode"
OnCloseFalsy(p, exitCode) ==
    IF exitCode = << 0 >> \/ exitCode = << >>
    THEN Settle(p, "resolved", Error(<< >>))
    ELSE Settle(p, "rejected", Error(<< "Node exited with code " >> \o CodeText(exitCode)))

\* child.on("close", exitCode => ...)
OnClose(p, exitCode) ==
    IF exitCode = << 0 >>
    THEN Settle(p, "resolved", Error(<< >>))
    ELSE Settle(p, "rejected", Error(<< "Node exited with code " >> \o CodeText(exitCode)))

ChildClose ==
    /\ ChildAlive
    /\ \E exitCode \in child.codes :
        /\ events' = Append(events, [ type |-> "close", code |-> exitCode ])
        /\ promise' = OnClose(promise, exitCode)
    /\ UNCHANGED << piped, pc, args, nodeVersionText, fs, child, values, positionals,
                    searchDir, examined, configPath, options, config, spawned, stdout,
                    stderr, result >>

\* main after "await runNodeTest(io, options)": return 0, or the catch block
Return ==
    /\ pc = "waiting"
    /\ promise.state # "pending"
    /\ IF promise.state = "resolved"
       THEN /\ result' = << 0 >>
            /\ pc' = "done"
            /\ UNCHANGED stderr
       ELSE Fail(promise.reason)
    /\ UNCHANGED << args, nodeVersionText, fs, child, values, positionals, searchDir,
                    examined, configPath, options, config, spawned, events, piped,
                    promise, stdout >>

Next ==
    \/ Parse
    \/ ShowHelp
    \/ ShowVersion
    \/ ReadConfig
    \/ FindPackageRoot
    \/ FindDefaultConfig
    \/ ReadConfigFile
    \/ ReadPackageJson
    \/ Merge
    \/ RunNodeTest
    \/ ChildOutput
    \/ ChildError
    \/ ChildClose
    \/ Return

------------------------------------------------------------------------------
(* The inputs of a run: configurations *)

\* at most this many fields of a base configuration are changed in a checked configuration
MaxConfigFields == 1

\* a configuration with every field set, as in the "big configuration" of the tests
FullConfig ==
    [ files |-> << ArrVal(<< << "files1" >>, << "files2" >> >>) >>,
      reporter |-> << << [ name |-> << "dot" >>, destination |-> << >> ],
                         [ name |-> << "junit" >>,
                           destination |-> << << "C", ":", "/junit.xml" >> >> ] >> >>,
      concurrency |-> << 12 >>,
      isolation |-> << << "none" >> >>,
      moduleMocks |-> << TRUE >>,
      forceExit |-> << TRUE >>,
      globalSetup |-> << << "global.js" >> >>,
      only |-> << TRUE >>,
      shard |-> << << "2/4" >> >>,
      testPattern |-> << ArrVal(<< << "test1" >>, << "test2" >> >>) >>,
      skipPattern |-> << ArrVal(<< << "skip1" >>, << "skip2" >> >>) >>,
      timeout |-> << 1234 >>,
      updateSnapshots |-> << TRUE >>,
      rerunFailures |-> << << "state" >> >>,
      watch |-> << TRUE >>,
      coverage |-> << [ enabled |-> << TRUE >>,
                        include |-> << ArrVal(<< << "inc1" >>, << "inc2" >> >>) >>,
                        exclude |-> << StrVal(<< "exc1" >>) >>,
                        lines |-> << 80 >>, branches |-> << 70 >>, functions |-> << 60 >> ] >> ]

\* values a "string | string[]" field of a configuration takes, unset included
ListFieldValues ==
    { << >>, << StrVal(<< "src/", "*.js" >>) >>, << ArrVal(<< >>) >>,
      << ArrVal(<< << "src/", "*.js" >> >>) >>,
      << ArrVal(<< << "src/", "*.js" >>, << "two" >> >>) >>,
      << ArrVal(<< << "two" >>, << "src/", "*.js" >> >>) >> }

BoolFieldValues == { << >>, << TRUE >>, << FALSE >> }

NumFieldValues == { << >>, << 0 >>, << 100 >> }

TextFieldValues == { << >>, << << "value" >> >> }

IsolationFieldValues == { << >>, << << "process" >> >>, << << "none" >> >> }

\* destinations of a configured reporter: absent, empty, blank, and kept as they are
DestinationValues ==
    { << >>, << << >> >>, << << " ", "\t" >> >>, << << "out.txt" >> >>,
      << << " ", "out.txt" >> >> }

ReporterFieldValues ==
    { << >>, << << >> >> }
    \cup { << << [ name |-> << "spec" >>, destination |-> d ] >> >> : d \in DestinationValues }
    \cup { << << [ name |-> << "tap" >>, destination |-> d ],
                 [ name |-> << "spec" >>, destination |-> << >> ] >> >> : d \in DestinationValues }

\* the coverage record of a configuration, the empty one when it has none
CoverageOf(cfg) == IF cfg.coverage = << >> THEN EmptyCoverage ELSE cfg.coverage[1]

\* the configurations that differ from cfg in one field or one coverage sub-field
OneFieldChanged(cfg) ==
    { [ cfg EXCEPT !.files = v ] : v \in ListFieldValues }
    \cup { [ cfg EXCEPT !.testPattern = v ] : v \in ListFieldValues }
    \cup { [ cfg EXCEPT !.skipPattern = v ] : v \in ListFieldValues }
    \cup { [ cfg EXCEPT !.reporter = v ] : v \in ReporterFieldValues }
    \cup { [ cfg EXCEPT !.concurrency = v ] : v \in NumFieldValues }
    \cup { [ cfg EXCEPT !.timeout = v ] : v \in NumFieldValues }
    \cup { [ cfg EXCEPT !.isolation = v ] : v \in IsolationFieldValues }
    \cup { [ cfg EXCEPT !.moduleMocks = v ] : v \in BoolFieldValues }
    \cup { [ cfg EXCEPT !.forceExit = v ] : v \in BoolFieldValues }
    \cup { [ cfg EXCEPT !.only = v ] : v \in BoolFieldValues }
    \cup { [ cfg EXCEPT !.updateSnapshots = v ] : v \in BoolFieldValues }
    \cup { [ cfg EXCEPT !.watch = v ] : v \in BoolFieldValues }
    \cup { [ cfg EXCEPT !.globalSetup = v ] : v \in TextFieldValues }
    \cup { [ cfg EXCEPT !.shard = v ] : v \in TextFieldValues }
    \cup { [ cfg EXCEPT !.rerunFailures = v ] : v \in TextFieldValues }
    \cup { [ cfg EXCEPT !.coverage = << >> ] }
    \cup { [ cfg EXCEPT !.coverage = << [ CoverageOf(cfg) EXCEPT !.enabled = v ] >> ] :
             v \in BoolFieldValues }
    \cup { [ cfg EXCEPT !.coverage = << [ CoverageOf(cfg) EXCEPT !.include = v ] >> ] :
             v \in ListFieldValues }
    \cup { [ cfg EXCEPT !.coverage = << [ CoverageOf(cfg) EXCEPT !.exclude = v ] >> ] :
             v \in ListFieldValues }
    \cup { [ cfg EXCEPT !.coverage = << [ CoverageOf(cfg) EXCEPT !.lines = v ] >> ] :
             v \in NumFieldValues }
    \cup { [ cfg EXCEPT !.coverage = << [ CoverageOf(cfg) EXCEPT !.branches = v ] >> ] :
             v \in NumFieldValues }
    \cup { [ cfg EXCEPT !.coverage = << [ CoverageOf(cfg) EXCEPT !.functions = v ] >> ] :
             v \in NumFieldValues }

RECURSIVE FieldsChanged(_, _)
\* the configurations that differ from cfg in at most k fields
FieldsChanged(cfg, k) ==
    IF k = 0 THEN { cfg }
    ELSE FieldsChanged(cfg, k - 1)
         \cup UNION { OneFieldChanged(c) : c \in FieldsChanged(cfg, k - 1) }

\* the two configurations every command line is checked against
CoreConfigs == { EmptyOptions, FullConfig }

\* the configurations checked without command-line flags
BroadConfigs == UNION { FieldsChanged(cfg, MaxConfigFields) : cfg \in CoreConfigs }

------------------------------------------------------------------------------
(* The inputs of a run: command lines *)

\* the longest command line built from the arguments of LineArguments
MaxLine == 3

Flag(name) == << "--", name >>
NoFlag(name) == << "--", "no-", name >>
FlagValue(name, v) == << "--", name, "=" >> \o v

NegatableOptions == BooleanOptions \ { "help", "version" }

\* the value texts given to the options on the command line
OptionValues ==
    ("config" :> { << "c.json" >> })
    @@ ("concurrency" :> { << "3" >> })
    @@ ("coverage-branches" :> { << "1", "3" >> })
    @@ ("coverage-functions" :> { << "1", "4" >> })
    @@ ("coverage-lines" :> { << "1", "5" >> })
    @@ ("global-setup" :> { << "setup.js" >> })
    @@ ("isolation" :> { << "process" >> })
    @@ ("rerun-failures" :> { << "cli-state" >> })
    @@ ("shard" :> { << "1/3" >> })
    @@ ("timeout" :> { << "0", "7" >> })
    @@ ("coverage-exclude" :> { << "foo2" >>, << "bar2" >> })
    @@ ("coverage-include" :> { << "foo" >>, << "bar" >> })
    @@ ("reporter" :> { << "spec" >>, << "lcov", ":", "C", ":", "/lcov.info" >> })
    @@ ("skip-pattern" :> { << "foo" >>, << "bar" >> })
    @@ ("test-pattern" :> { << "foo" >>, << "bar" >> })

\* the arguments command lines are built from
Arguments ==
    { Flag(o) : o \in BooleanOptions }
    \cup { NoFlag(o) : o \in NegatableOptions }
    \cup UNION { { FlagValue(o, v) : v \in OptionValues[o] } : o \in StringOptions }
    \cup { << "-", "u" >>, << "-", "w" >>, << "-", "t" >>, Flag("timeout"), Flag("bogus") }
    \cup { << "a.test.js" >>, << "4", "2" >>, << "--" >> }

\* the arguments of the command lines about positional arguments and passthrough
LineArguments ==
    { << "a.test.js" >>, << "b.test.js" >>, << "--" >>, Flag("watch"), Flag("no-warnings"),
      FlagValue("test-pattern", << "foo" >>) }

\* reporter values checked for the split at the colon
ReporterTexts ==
    { << >>, << ":" >>, << "spec" >>, << "spec", ":" >>, << ":", "out" >>,
      << "spec", ":", "out" >>, << "spec", ":", " " >>, << "spec", ":", ":" >>,
      << "lcov", ":", "C", ":", "/lcov.info" >>, << "a", ":", "b", ":", "c", ":", "d" >> }

\* the sequences over a set of a length up to n
SeqsUpTo(S, n) == UNION { [ 1..k -> S ] : k \in 0..n }

------------------------------------------------------------------------------
(* The inputs of a run: file systems, node versions, child processes *)

\* the deepest working directory checked
MaxDepth == 2

DirNames == << "home", "proj", "pkg", "src", "test" >>

\* the directory of the given depth
DirAt(depth) == SubSeq(DirNames, 1, depth)

ParsedFile(top, ntest) == [ parses |-> TRUE, doc |-> [ top |-> top, ntest |-> ntest ] ]

BrokenFile == [ parses |-> FALSE, doc |-> [ top |-> EmptyOptions, ntest |-> << >> ] ]

\* a project in /home with a package.json without "ntest" property, the given
\* configuration in ntest.json, and a configuration file c.json for --config
ProjectFs(cfg) ==
    [ cwd |-> DirAt(1),
      files |-> (JoinPath(DirAt(1), "package.json") :> ParsedFile(EmptyOptions, << >>))
                @@ (JoinPath(DirAt(1), "ntest.json") :> ParsedFile(cfg, << >>))
                @@ (<< "c.json" >> :> ParsedFile([ EmptyOptions EXCEPT !.watch = << TRUE >> ], << >>)) ]

\* a configuration that names the file it comes from
ConfigNaming(path) == [ EmptyOptions EXCEPT !.globalSetup = << path >> ]

\* what a file of a package directory may be: absent, unparsable, or a configuration
FileKinds == { "absent", "broken", "config" }

\* the files of the package directory dir: package.json, always there, and the two
\* default files, each of the kind asked for
PackageFiles(dir, kinds) ==
    [ p \in { JoinPath(dir, "package.json") }
            \cup { JoinPath(dir, defaultConfigLocations[i]) :
                     i \in { j \in 1..Len(defaultConfigLocations) : kinds[j] # "absent" } } |->
        IF p = JoinPath(dir, "package.json")
        THEN IF kinds[3] = "broken" THEN BrokenFile
             ELSE ParsedFile(EmptyOptions,
                             IF kinds[3] = "config" THEN << ConfigNaming(p) >> ELSE << >>)
        ELSE IF \E i \in 1..Len(defaultConfigLocations) :
                  p = JoinPath(dir, defaultConfigLocations[i]) /\ kinds[i] = "broken"
        THEN BrokenFile
        ELSE ParsedFile(ConfigNaming(p), << >>) ]

RECURSIVE FilesOf(_, _, _)
\* the files of all package directories among the directories of depth 0..depth
FilesOf(depth, packageDepths, kinds) ==
    LET here == IF depth \in packageDepths THEN PackageFiles(DirAt(depth), kinds)
                ELSE << >>
    IN  IF depth = 0 THEN here ELSE here @@ FilesOf(depth - 1, packageDepths, kinds)

\* the explicit configuration file of --config: absent, unparsable, or a configuration
ExplicitFile(kind) ==
    IF kind = "absent" THEN << >>
    ELSE IF kind = "broken" THEN (<< "c.json" >> :> BrokenFile)
    ELSE (<< "c.json" >> :> ParsedFile(ConfigNaming(<< "c.json" >>), << >>))

\* file systems with any working directory, any set of package directories above it and
\* any kinds of configuration files in them
SourceFileSystems ==
    UNION { { [ cwd |-> DirAt(depth),
                files |-> FilesOf(depth, packageDepths, kinds) @@ ExplicitFile(explicit) ] :
              packageDepths \in SUBSET (0..depth), kinds \in [ 1..3 -> FileKinds ],
              explicit \in FileKinds } :
            depth \in 0..MaxDepth }

NodeVersions ==
    { << "2", "0", ".", "1", "9", ".", "0" >>, << "2", "2", ".", "0", ".", "0" >>,
      << "2", "3", ".", "1", "1", ".", "1" >>, << "2", "4", ".", "0", ".", "0" >>,
      << "2", "5", ".", "2", ".", "1" >>, << "9", ".", "0", ".", "0" >> }

\* the node version of the runs that do not vary it
DefaultVersion == << "2", "4", ".", "0", ".", "0" >>

\* the close codes of a child: 0, an error code, or null after a signal
CloseCodes == { << 0 >>, << 1 >>, << 9 >>, << >> }

\* a child that writes nothing and closes with code 0
QuietChild == [ codes |-> { << 0 >> }, error |-> << >>, output |-> << >> ]

\* what a child writes: nothing, or a report to its stdout and a message to its stderr
ChildOutputs ==
    { << >>,
      << [ stream |-> "stdout", text |-> << "TAP version 13\n" >> ],
         [ stream |-> "stderr", text |-> << "node: bad option: --wrong-param\n" >> ] >> }

\* children that close with any code, may emit an error first and may write
Children ==
    { [ codes |-> CloseCodes, error |-> e, output |-> o ] :
        e \in { << >>, << << "spawn node ENOENT" >> >> }, o \in ChildOutputs }

\* the state main starts in, given its arguments and its environment
Start(a, v, f, c) ==
    /\ args = a
    /\ nodeVersionText = v
    /\ fs = f
    /\ child = c
    /\ pc = "start"
    /\ values = NoValues
    /\ positionals = << >>
    /\ searchDir = << >>
    /\ examined = << >>
    /\ configPath = << >>
    /\ options = EmptyOptions
    /\ config = EmptyOptions
    /\ spawned = << >>
    /\ events = << >>
    /\ piped = << >>
    /\ promise = [ state |-> "pending", reason |-> Error(<< >>) ]
    /\ stdout = << >>
    /\ stderr = << >>
    /\ result = << >>

\* every command line of up to two arguments, on an empty and on a full configuration
InitArguments ==
    \E a \in { << >> } \cup { << x >> : x \in Arguments }
             \cup { << x, y >> : x \in Arguments, y \in Arguments },
       cfg \in CoreConfigs :
        Start(a, DefaultVersion, ProjectFs(cfg), QuietChild)

\* longer command lines of positional arguments, passthrough and repeated options
InitLines ==
    \E a \in SeqsUpTo(LineArguments, MaxLine), cfg \in CoreConfigs :
        Start(a, DefaultVersion, ProjectFs(cfg), QuietChild)

\* reporters given on the command line
InitReporters ==
    \E r \in ReporterTexts, cfg \in CoreConfigs :
        \E a \in { << FlagValue("reporter", r) >>,
                   << FlagValue("reporter", r), FlagValue("reporter", << "spec" >>) >> } :
            Start(a, DefaultVersion, ProjectFs(cfg), QuietChild)

\* configurations without command-line flags
InitConfigs ==
    \E cfg \in BroadConfigs : Start(<< >>, DefaultVersion, ProjectFs(cfg), QuietChild)

\* the isolation mode, configured or given on the command line, on every node version
InitVersions ==
    \E v \in NodeVersions, i \in IsolationFieldValues, cfg \in CoreConfigs :
        \E a \in { << >>, << FlagValue("isolation", << "process" >>) >>,
                   << FlagValue("isolation", << "none" >>) >> } :
            Start(a, v, ProjectFs([ cfg EXCEPT !.isolation = i ]), QuietChild)

\* the sources of the configuration
InitSources ==
    \E a \in { << >>, << FlagValue("config", << "c.json" >>) >> }, f \in SourceFileSystems :
        Start(a, DefaultVersion, f, QuietChild)

\* configurations and flag values that are not of their type: a document that is no
\* record, a text that is no number for a numeric flag
InitMalformed ==
    \E a \in { << >>, << FlagValue("timeout", << "abc" >>) >>,
               << FlagValue("coverage-lines", << "abc" >>), Flag("coverage") >> },
       cfg \in { Null, EmptyOptions, FullConfig } :
        Start(a, DefaultVersion, ProjectFs(cfg), QuietChild)

\* the outcomes of the child process
InitChildren ==
    \E a \in { << >>, << << "a.test.js" >> >>, << << "--" >>, Flag("wrong-param") >> },
       c \in Children :
        Start(a, DefaultVersion, ProjectFs(EmptyOptions), c)

Init ==
    \/ InitArguments
    \/ InitLines
    \/ InitReporters
    \/ InitConfigs
    \/ InitVersions
    \/ InitSources
    \/ InitMalformed
    \/ InitChildren

Spec == Init /\ [][Next]_vars

------------------------------------------------------------------------------
(* Properties *)

\* node has been spawned
Spawned == spawned # << >>

\* the parameters node was spawned with
SpawnedParams == spawned[1]

\* the prefixes of the parameters each step of the translation produces, step by step
StepPrefixes ==
    << { "--test" },
       { "--experimental-test-coverage" },
       { "--test-coverage-exclude=" },
       { "--test-coverage-include=" },
       { "--test-coverage-branches=" },
       { "--test-coverage-functions=" },
       { "--test-coverage-lines=" },
       { "--test-reporter=", "--test-reporter-destination=" },
       { "--test-name-pattern=" },
       { "--test-skip-pattern=" },
       { "--experimental-test-isolation=", "--test-isolation=" },
       { "--experimental-test-module-mocks" },
       { "--test-concurrency=" },
       { "--test-force-exit" },
       { "--test-only" },
       { "--test-shard=" },
       { "--test-timeout=" },
       { "--test-update-snapshots" },
       { "--test-rerun-failures=" },
       { "--test-global-setup=" },
       { "--watch" } >>

\* the step a parameter belongs to; a parameter of no step is a file
StepOf(param) ==
    IF param # << >> /\ \E k \in 1..Len(StepPrefixes) : Head(param) \in StepPrefixes[k]
    THEN CHOOSE k \in 1..Len(StepPrefixes) : Head(param) \in StepPrefixes[k]
    ELSE Len(StepPrefixes) + 1

\* the steps that may give more than one parameter: those of the lists, and the files
RepeatableSteps ==
    { k \in 1..Len(StepPrefixes) :
        StepPrefixes[k] \cap { "--test-coverage-exclude=", "--test-coverage-include=",
                               "--test-reporter=", "--test-name-pattern=",
                               "--test-skip-pattern=" } # { } }
    \cup { Len(StepPrefixes) + 1 }

IsFileParam(param) == StepOf(param) = Len(StepPrefixes) + 1

RECURSIVE ValuesWith(_, _)
\* the values of the parameters with the prefix, in the order of the parameters
ValuesWith(ps, prefix) ==
    IF ps = << >> THEN << >>
    ELSE (IF Head(ps) # << >> /\ Head(Head(ps)) = prefix THEN << Tail(Head(ps)) >> ELSE << >>)
         \o ValuesWith(Tail(ps), prefix)

\* the parameter without value is among the parameters
HasParam(ps, name) == \E i \in 1..Len(ps) : ps[i] = << name >>

\* the text of an optional number or string field: no text when it is unset
NumTexts(x) == IF x = << >> THEN << >> ELSE << NumText(x[1]) >>

\* the strings a "string | string[]" field stands for
ItemsOf(x) ==
    IF x = << >> THEN << >> ELSE IF x[1].kind = "str" THEN << x[1].s >> ELSE x[1].items

MergedCoverage == options.coverage[1]

\* C1: the parameters node is spawned with start with "--test" and follow the fixed
\* sequence of steps (coverage block, reporters, test-name patterns, skip patterns,
\* isolation, module mocks, concurrency, force-exit, only, shard, timeout,
\* update-snapshots, rerun-failures, global-setup, watch, files), whatever the order of
\* the flags on the command line; each step gives the parameters of its field of the
\* merged options and nothing when the field is unset, so an empty configuration
\* without flags gives exactly "--test"
C1_FixedSequence ==
    Spawned =>
        LET ps == SpawnedParams
        IN  /\ ps[1] = << "--test" >>
            /\ \A i \in 2..Len(ps) : StepOf(ps[i]) # 1
            /\ \A i \in 1..(Len(ps) - 1) :
                   \/ StepOf(ps[i]) < StepOf(ps[i + 1])
                   \/ StepOf(ps[i]) = StepOf(ps[i + 1]) /\ StepOf(ps[i]) \in RepeatableSteps
            /\ HasParam(ps, "--experimental-test-coverage") <=> MergedCoverage.enabled = << TRUE >>
            /\ MergedCoverage.enabled = << TRUE >> =>
                /\ ValuesWith(ps, "--test-coverage-exclude=") = ItemsOf(MergedCoverage.exclude)
                /\ ValuesWith(ps, "--test-coverage-include=") = ItemsOf(MergedCoverage.include)
                /\ ValuesWith(ps, "--test-coverage-branches=") = NumTexts(MergedCoverage.branches)
                /\ ValuesWith(ps, "--test-coverage-functions=") = NumTexts(MergedCoverage.functions)
                /\ ValuesWith(ps, "--test-coverage-lines=") = NumTexts(MergedCoverage.lines)
            /\ Len(ValuesWith(ps, "--test-reporter=")) = Len(ValuesWith(ps, "--test-reporter-destination="))
            /\ Len(ValuesWith(ps, "--test-reporter=")) =
                   (IF options.reporter = << >> THEN 0 ELSE Len(options.reporter[1]))
            /\ ValuesWith(ps, "--test-name-pattern=") = ItemsOf(options.testPattern)
            /\ ValuesWith(ps, "--test-skip-pattern=") = ItemsOf(options.skipPattern)
            /\ ValuesWith(ps, "--experimental-test-isolation=")
                   \o ValuesWith(ps, "--test-isolation=") = options.isolation
            /\ HasParam(ps, "--experimental-test-module-mocks") <=> options.moduleMocks = << TRUE >>
            /\ ValuesWith(ps, "--test-concurrency=") = NumTexts(options.concurrency)
            /\ HasParam(ps, "--test-force-exit") <=> options.forceExit = << TRUE >>
            /\ HasParam(ps, "--test-only") <=> options.only = << TRUE >>
            /\ ValuesWith(ps, "--test-shard=") = options.shard
            /\ ValuesWith(ps, "--test-timeout=") = NumTexts(options.timeout)
            /\ HasParam(ps, "--test-update-snapshots") <=> options.updateSnapshots = << TRUE >>
            /\ ValuesWith(ps, "--test-rerun-failures=") = options.rerunFailures
            /\ ValuesWith(ps, "--test-global-setup=") = options.globalSetup
            /\ HasParam(ps, "--watch") <=> options.watch = << TRUE >>
            /\ SelectSeq(ps, IsFileParam) = ItemsOf(options.files)
            /\ (args = << >> /\ config = EmptyOptions) => ps = << << "--test" >> >>

\* C1 witness: node was spawned for flags given in the reverse of the sequence, over a
\* configuration that sets every field
C1_Witness ==
    /\ Spawned
    /\ config = FullConfig
    /\ args = << Flag("watch"), FlagValue("coverage-lines", << "1", "5" >>) >>

CoveragePrefixes ==
    { "--experimental-test-coverage", "--test-coverage-exclude=", "--test-coverage-include=",
      "--test-coverage-branches=", "--test-coverage-functions=", "--test-coverage-lines=" }

IsCoverageParam(param) == param # << >> /\ Head(param) \in CoveragePrefixes

\* the parameters that carry the texts after the prefix
Prefixed(prefix, texts) == [ i \in 1..Len(texts) |-> << prefix >> \o texts[i] ]

\* C2: when coverage.enabled of the merged options is unset or false, node gets no
\* coverage parameter at all, whatever the other coverage sub-fields are; when it is true
\* the coverage parameters are the enable parameter, the excludes, the includes, then
\* branches, functions and lines
C2_CoverageOnlyWhenEnabled ==
    Spawned =>
        LET block == SelectSeq(SpawnedParams, IsCoverageParam)
            cov == MergedCoverage
        IN  IF cov.enabled = << TRUE >>
            THEN block = << << "--experimental-test-coverage" >> >>
                         \o Prefixed("--test-coverage-exclude=", ItemsOf(cov.exclude))
                         \o Prefixed("--test-coverage-include=", ItemsOf(cov.include))
                         \o Prefixed("--test-coverage-branches=", NumTexts(cov.branches))
                         \o Prefixed("--test-coverage-functions=", NumTexts(cov.functions))
                         \o Prefixed("--test-coverage-lines=", NumTexts(cov.lines))
            ELSE block = << >>

\* C2 witness: node was spawned with coverage disabled on the command line while the
\* configuration and a flag set coverage sub-fields
C2_Witness ==
    /\ Spawned
    /\ config = FullConfig
    /\ args = << NoFlag("coverage"), FlagValue("coverage-lines", << "1", "5" >>) >>
    /\ MergedCoverage.enabled = << FALSE >>
    /\ MergedCoverage.lines = << 15 >>

\* C3: a top-level field given on the command line holds the command line's value only:
\* the parameters of the field are those of the command line's value, a list replaces
\* the configured list, a negated flag leaves the flag parameter out, and positional
\* arguments replace the configured files
C3_CommandLineWins ==
    Spawned =>
        LET ps == SpawnedParams
            text(key, prefix) == values[key] # << >> => ValuesWith(ps, prefix) = values[key]
            num(key, prefix) ==
                values[key] # << >> =>
                    ValuesWith(ps, prefix) = << NumText(Number(values[key][1])) >>
            bool(key, name) == values[key] # << >> => (HasParam(ps, name) <=> values[key] = << TRUE >>)
            list(key, prefix) == values[key] # << >> => ValuesWith(ps, prefix) = values[key][1]
        IN  /\ text("global-setup", "--test-global-setup=")
            /\ text("rerun-failures", "--test-rerun-failures=")
            /\ text("shard", "--test-shard=")
            /\ values["isolation"] # << >> =>
                   ValuesWith(ps, "--experimental-test-isolation=")
                       \o ValuesWith(ps, "--test-isolation=") = values["isolation"]
            /\ num("concurrency", "--test-concurrency=")
            /\ num("timeout", "--test-timeout=")
            /\ bool("force-exit", "--test-force-exit")
            /\ bool("only", "--test-only")
            /\ bool("module-mocks", "--experimental-test-module-mocks")
            /\ bool("update-snapshots", "--test-update-snapshots")
            /\ bool("watch", "--watch")
            /\ list("skip-pattern", "--test-skip-pattern=")
            /\ list("test-pattern", "--test-name-pattern=")
            /\ values["reporter"] # << >> =>
                   LET names == ValuesWith(ps, "--test-reporter=")
                       given == values["reporter"][1]
                   IN  /\ Len(names) = Len(given)
                       /\ \A i \in 1..Len(names) :
                              /\ names[i] = SubSeq(given[i], 1, Len(names[i]))
                              /\ options.reporter[1][i].name = names[i]
            /\ positionals # << >> =>
                   /\ SelectSeq(ps, IsFileParam) = positionals
                   /\ options.files = << ArrVal(positionals) >>
            /\ values["watch"] # << >> => options.watch = values["watch"]
            /\ values["timeout"] # << >> => options.timeout = << Number(values["timeout"][1]) >>
            /\ values["test-pattern"] # << >> =>
                   options.testPattern = << ArrVal(values["test-pattern"][1]) >>

\* C3 witness: node was spawned for a negated flag and a list flag over a configuration
\* that sets both fields
C3_Witness ==
    /\ Spawned
    /\ config = FullConfig
    /\ args = << NoFlag("watch"), FlagValue("test-pattern", << "foo" >>) >>
    /\ ~HasParam(SpawnedParams, "--watch")

\* the merge has been made
Merged == pc = "merged" \/ Spawned

\* C4: a coverage sub-field given on the command line changes that sub-field only: every
\* sub-field without flag keeps the value of the configuration, and without any coverage
\* flag the coverage record is that of the configuration
C4_CoverageSubFieldsIndependent ==
    Merged =>
        LET old == CoverageOf(config)
            new == MergedCoverage
        IN  /\ new.enabled = (IF values["coverage"] # << >> THEN values["coverage"] ELSE old.enabled)
            /\ new.branches = (IF values["coverage-branches"] # << >>
                               THEN << Number(values["coverage-branches"][1]) >> ELSE old.branches)
            /\ new.functions = (IF values["coverage-functions"] # << >>
                                THEN << Number(values["coverage-functions"][1]) >> ELSE old.functions)
            /\ new.lines = (IF values["coverage-lines"] # << >>
                            THEN << Number(values["coverage-lines"][1]) >> ELSE old.lines)
            /\ new.exclude = (IF values["coverage-exclude"] # << >>
                              THEN << ArrVal(values["coverage-exclude"][1]) >> ELSE old.exclude)
            /\ new.include = (IF values["coverage-include"] # << >>
                              THEN << ArrVal(values["coverage-include"][1]) >> ELSE old.include)

\* C4 witness: the merge was made for one coverage flag over a configuration that sets
\* every coverage sub-field, and the other sub-fields are those of the configuration
C4_Witness ==
    /\ pc = "merged"
    /\ config = FullConfig
    /\ args = << FlagValue("coverage-branches", << "1", "3" >>) >>
    /\ MergedCoverage.lines = << 80 >>
    /\ MergedCoverage.branches = << 13 >>

IsReporterParam(param) ==
    param # << >> /\ Head(param) \in { "--test-reporter=", "--test-reporter-destination=" }

\* the reporters of the merged options
MergedReporters == IF options.reporter = << >> THEN << >> ELSE options.reporter[1]

\* a destination that is absent, empty or only whitespace
IsBlank(destination) ==
    destination = << >> \/ \A i \in 1..Len(destination[1]) : IsWhitespace(destination[1][i])

\* C5: a reporter list of length N gives exactly 2N reporter parameters: for the i-th
\* reporter --test-reporter=<name> immediately followed by
\* --test-reporter-destination=<destination>, in the order of the list, the destination
\* being the configured one unchanged, or "stdout" when it is absent, empty or whitespace
C5_ReporterPairs ==
    Spawned =>
        LET ps == SpawnedParams
            block == SelectSeq(ps, IsReporterParam)
            rs == MergedReporters
        IN  /\ Len(block) = 2 * Len(rs)
            /\ \A i \in 1..Len(rs) :
                   /\ block[2 * i - 1] = << "--test-reporter=" >> \o rs[i].name
                   /\ block[2 * i] = << "--test-reporter-destination=" >>
                                     \o (IF IsBlank(rs[i].destination) THEN << "stdout" >>
                                         ELSE rs[i].destination[1])
            /\ \A i \in 1..Len(ps) :
                   (ps[i] # << >> /\ Head(ps[i]) = "--test-reporter=") =>
                       /\ i < Len(ps)
                       /\ Head(ps[i + 1]) = "--test-reporter-destination="

\* C5 witness: node was spawned for two reporters, the first with a destination of
\* whitespace only
C5_Witness ==
    /\ Spawned
    /\ Len(MergedReporters) = 2
    /\ MergedReporters[1].destination = << << " ", "\t" >> >>
    /\ options.watch = << TRUE >>

HasColon(t) == \E i \in 1..Len(t) : t[i] = ":"

\* C6: for every value of the --reporter flag the name is the part before the first
\* colon and the destination all that follows it, further colons kept, so that name,
\* ":" and destination give the value back; a value without colon has an empty
\* destination, and its destination parameter is "stdout"
C6_ReporterSplit ==
    (Merged /\ values["reporter"] # << >>) =>
        LET given == values["reporter"][1]
            rs == MergedReporters
        IN  /\ Len(rs) = Len(given)
            /\ \A i \in 1..Len(given) :
                   /\ ~HasColon(rs[i].name)
                   /\ rs[i].destination # << >>
                   /\ IF HasColon(given[i])
                      THEN rs[i].name \o << ":" >> \o rs[i].destination[1] = given[i]
                      ELSE /\ rs[i].name = given[i]
                           /\ rs[i].destination = << << >> >>
                           /\ Spawned =>
                                  ValuesWith(SpawnedParams, "--test-reporter-destination=")[i]
                                      = << "stdout" >>

\* C6 witness: the merge was made for a reporter value with two colons
C6_Witness ==
    /\ Spawned
    /\ args = << FlagValue("reporter", << "lcov", ":", "C", ":", "/lcov.info" >>) >>
    /\ MergedReporters[1].destination = << << "C", ":", "/lcov.info" >> >>

\* C7: when isolation is set there is exactly one isolation parameter, named
\* --experimental-test-isolation= below major version 24 and --test-isolation= from 24
\* on, with the isolation string unchanged; when it is unset there is none
C7_IsolationByVersion ==
    Spawned =>
        LET experimental == ValuesWith(SpawnedParams, "--experimental-test-isolation=")
            stable == ValuesWith(SpawnedParams, "--test-isolation=")
        IN  IF options.isolation = << >> THEN experimental = << >> /\ stable = << >>
            ELSE IF ParseInt(nodeVersionText) < 24
            THEN experimental = options.isolation /\ stable = << >>
            ELSE experimental = << >> /\ stable = options.isolation

\* C7 witness: node 23 was spawned with the experimental isolation parameter
C7_Witness ==
    /\ Spawned
    /\ ParseInt(nodeVersionText) = 23
    /\ ValuesWith(SpawnedParams, "--experimental-test-isolation=") = << << "process" >> >>

\* the merged options with the single string of a list field written as a list of one
AsListOfOne(x) == IF x # << >> /\ x[1].kind = "str" THEN << ArrVal(<< x[1].s >>) >> ELSE x

OptionsWithLists ==
    [ options EXCEPT !.files = AsListOfOne(@), !.testPattern = AsListOfOne(@),
                     !.skipPattern = AsListOfOne(@),
                     !.coverage = << [ @[1] EXCEPT !.include = AsListOfOne(@),
                                                   !.exclude = AsListOfOne(@) ] >> ]

\* the number of strings a "string | string[]" field holds
CountOf(x) == IF x = << >> THEN 0 ELSE IF x[1].kind = "str" THEN 1 ELSE Len(x[1].items)

\* C8: a list field given as a single string gives the parameters its one-element list
\* gives, and a list of k strings gives k parameters of the field, in list order
C8_StringAsList ==
    Spawned =>
        LET ps == SpawnedParams
            count(prefix) == Len(ValuesWith(ps, prefix))
        IN  /\ ps = BuildParams(OptionsWithLists, ParseInt(nodeVersionText))
            /\ Len(SelectSeq(ps, IsFileParam)) = CountOf(options.files)
            /\ count("--test-name-pattern=") = CountOf(options.testPattern)
            /\ count("--test-skip-pattern=") = CountOf(options.skipPattern)
            /\ MergedCoverage.enabled = << TRUE >> =>
                   /\ count("--test-coverage-include=") = CountOf(MergedCoverage.include)
                   /\ count("--test-coverage-exclude=") = CountOf(MergedCoverage.exclude)
            /\ \A i \in 1..CountOf(options.testPattern) :
                   options.testPattern[1].kind = "arr" =>
                       ValuesWith(ps, "--test-name-pattern=")[i] = options.testPattern[1].items[i]

\* C8 witness: node was spawned for a test pattern given as a single string of several
\* characters
C8_Witness ==
    /\ Spawned
    /\ options.testPattern = << StrVal(<< "src/", "*.js" >>) >>
    /\ ValuesWith(SpawnedParams, "--test-name-pattern=") = << << "src/", "*.js" >> >>

\* the position of the "--" separator on the command line, 0 when there is none
SeparatorAt ==
    IF \E i \in 1..Len(args) : args[i] = << "--" >>
    THEN CHOOSE i \in 1..Len(args) : args[i] = << "--" >> /\ \A j \in 1..(i - 1) : args[j] # << "--" >>
    ELSE 0

\* the arguments after the separator
Passthrough == IF SeparatorAt = 0 THEN << >> ELSE SubSeq(args, SeparatorAt + 1, Len(args))

\* C9: the arguments after "--" are the last parameters node is spawned with, unmodified
\* and in their order, after every parameter built from the options
C9_PassthroughLast ==
    Spawned =>
        LET ps == SpawnedParams
            n == Len(Passthrough)
        IN  /\ Len(ps) > n
            /\ StrEach(SubSeq(ps, Len(ps) - n + 1, Len(ps))) = StrEach(Passthrough)

\* C9 witness: node was spawned for two arguments after the separator, over a
\* configuration that sets every field
C9_Witness ==
    /\ Spawned
    /\ config = FullConfig
    /\ args = << << "--" >>, Flag("no-warnings"), << "b.test.js" >> >>

NoErrorEvent == \A i \in 1..Len(events) : events[i].type # "error"

\* the exit code as node prints it
CodeString(exitCode) == IF exitCode = << >> THEN "null" ELSE ToString(exitCode[1])

\* C10: once node is spawned, main returns only after the close event, returns 0 exactly
\* when the close code is 0, and for any other code, null included, returns 1 after
\* writing "ntest: Node exited with code <code>" to the error stream
C10_ExitCode ==
    (pc = "done" /\ Spawned /\ NoErrorEvent) =>
        /\ events # << >>
        /\ events[1].type = "close"
        /\ result = << 0 >> <=> events[1].code = << 0 >>
        /\ events[1].code = << 0 >> => stderr = << >>
        /\ events[1].code # << 0 >> =>
               /\ result = << 1 >>
               /\ StrEach(stderr)
                      = << "ntest: Node exited with code " \o CodeString(events[1].code) \o "\n" >>

\* C10 witness: main returned 1 after the child was ended by a signal
C10_Witness ==
    /\ pc = "done"
    /\ events = << [ type |-> "close", code |-> << >> ] >>
    /\ result = << 1 >>

\* the line main writes for an error with this message
ErrorLine(message) == << commandName, ": " >> \o message \o << "\n" >>

\* the text is one line: it ends with its only line feed
IsOneLine(t) ==
    /\ t # << >>
    /\ t[Len(t)] = "\n"
    /\ \A i \in 1..(Len(t) - 1) : t[i] # "\n"

\* what the child wrote to the stream so far
PipedTo(stream) == SelectSeq(piped, LAMBDA chunk : chunk.stream = stream)

AsksHelpOrVersion == values["help"] = << TRUE >> \/ values["version"] = << TRUE >>

\* no step of readConfig has been made
NothingRead ==
    /\ examined = << >>
    /\ searchDir = << >>
    /\ configPath = << >>
    /\ config = EmptyOptions
    /\ options = EmptyOptions

\* the file the configuration was taken from: the configuration file, or package.json of
\* the package root when no configuration file was chosen
SourcePath ==
    IF configPath # << >> THEN configPath ELSE JoinPath(searchDir, "package.json")

\* C12: node is spawned at most once, and only when the command line parsed without
\* error, asked for neither help nor version, and the chosen source of the
\* configuration was read and parsed; so a run that fails on an unknown flag, on a
\* missing package root or on a configuration that cannot be read spawns nothing, and
\* --help and --version return 0 without any step of readConfig and without spawning
C12_SpawnAfterConfig ==
    /\ Len(spawned) <= 1
    /\ Spawned =>
           /\ ParseArgs(args).error = << >>
           /\ values = ParseArgs(args).values
           /\ ~AsksHelpOrVersion
           /\ configPath # << >> \/ examined # << >>
           /\ FileExists(SourcePath)
           /\ ReadError(SourcePath) = << >>
    /\ (pc = "done" /\ stderr = << ErrorLine(<< "Unable to locate package.json" >>) >>) =>
           ~Spawned
    /\ AsksHelpOrVersion =>
           /\ ~Spawned
           /\ NothingRead
           /\ pc = "done" => (result = << 0 >> /\ stderr = << >> /\ Len(stdout) = 1)

\* C12 witness: --help returned 0 in a project whose configuration sets every field,
\* and nothing was read or spawned
C12_Witness ==
    /\ pc = "done"
    /\ args = << Flag("help") >>
    /\ FileExists(JoinPath(fs.cwd, "ntest.json"))
    /\ fs.files[JoinPath(fs.cwd, "ntest.json")].doc.top = FullConfig
    /\ stdout = << help >>
    /\ NothingRead
    /\ ~Spawned

\* the working directory and the directories above it, the working directory first
Ancestors == [ i \in 1..(Len(fs.cwd) + 1) |-> SubSeq(fs.cwd, 1, Len(fs.cwd) + 1 - i) ]

HasPackageJson(dir) == FileExists(JoinPath(dir, "package.json"))

\* a directory at or above the working directory holds package.json
RootExists == \E i \in 1..Len(Ancestors) : HasPackageJson(Ancestors[i])

\* the nearest of them
NearestRoot ==
    Ancestors[CHOOSE i \in 1..Len(Ancestors) :
                  /\ HasPackageJson(Ancestors[i])
                  /\ \A j \in 1..(i - 1) : ~HasPackageJson(Ancestors[j])]

\* the one source the priority gives: the explicit file, ntest.json of the nearest
\* package root, .ntest.json of it, or its package.json
PrioritySource ==
    IF values["config"] # << >> THEN values["config"][1]
    ELSE IF FileExists(JoinPath(NearestRoot, "ntest.json"))
    THEN JoinPath(NearestRoot, "ntest.json")
    ELSE IF FileExists(JoinPath(NearestRoot, ".ntest.json"))
    THEN JoinPath(NearestRoot, ".ntest.json")
    ELSE JoinPath(NearestRoot, "package.json")

\* the options the source holds: the document of a configuration file, the "ntest"
\* property of package.json, the empty options when package.json has none
OptionsIn(path) ==
    LET doc == fs.files[path].doc
    IN  IF values["config"] = << >> /\ path = JoinPath(NearestRoot, "package.json")
        THEN (IF doc.ntest # << >> THEN doc.ntest[1] ELSE EmptyOptions)
        ELSE doc.top

\* readConfig has returned
ConfigResolved == pc \in { "configured", "merged", "waiting" } \/ Spawned

\* readConfig was called and has not returned a configuration
ConfigFailed ==
    /\ pc = "done"
    /\ ~Spawned
    /\ ParseArgs(args).error = << >>
    /\ ~AsksHelpOrVersion
    /\ values["config"] # << >> \/ RootExists
    /\ MergeError(config) = << >>

\* C13: the configuration is that of the one source the priority gives (--config, else
\* ntest.json, else .ntest.json, else the ntest property of package.json, else empty
\* options, all in the nearest package root); with --config no directory is searched;
\* and when that source cannot be read or parsed the run fails with no configuration,
\* without a look at the next source
C13_SourcePriority ==
    /\ values["config"] # << >> => examined = << >>
    /\ ConfigResolved =>
           /\ ReadError(PrioritySource) = << >>
           /\ config = OptionsIn(PrioritySource)
    /\ ConfigFailed =>
           /\ ReadError(PrioritySource) # << >>
           /\ config = EmptyOptions
           /\ result = << 1 >>

\* C13 witness: without --config, in a directory below the package root, with both
\* default files and the ntest property there, ntest.json was the configuration
C13_Witness ==
    /\ Spawned
    /\ args = << >>
    /\ Len(fs.cwd) = 2
    /\ NearestRoot = DirAt(1)
    /\ FileExists(JoinPath(DirAt(1), ".ntest.json"))
    /\ fs.files[JoinPath(DirAt(1), "package.json")].doc.ntest # << >>
    /\ FileExists(<< "c.json" >>)
    /\ config = ConfigNaming(JoinPath(DirAt(1), "ntest.json"))

\* C14: every failure to read or parse the source of the configuration, be it the
\* explicit file, a default file or package.json, is reported as
\* "ntest: Error while reading config '<path>': <cause>" with the path of that source.
\* The read of package.json (readConfig, after the loop over the default files) is not
\* inside the try block that adds the path, so this does not hold.
C14_ReadFailureNamesFile ==
    ConfigFailed =>
        stderr = << ErrorLine(ConfigError(PrioritySource, ReadError(PrioritySource)[1]).message) >>

\* the outcome the handler of the child's event gives
OutcomeOf(event) ==
    IF event.type = "error" THEN [ state |-> "rejected", reason |-> Error(child.error[1]) ]
    ELSE IF event.code = << 0 >> THEN [ state |-> "resolved", reason |-> Error(<< >>) ]
    ELSE [ state |-> "rejected",
           reason |-> Error(<< "Node exited with code " >> \o CodeText(event.code)) ]

\* C15: the outcome of the launch is pending until the child's first "error" or "close"
\* event and is the outcome of that first event from then on, whatever events follow;
\* main does not return before the first event, and after an "error" event first it
\* returns 1 with the message of the spawn error, also when a close event followed
C15_SettledByFirstEvent ==
    Spawned =>
        /\ promise.state = "pending" <=> events = << >>
        /\ events # << >> => promise = OutcomeOf(events[1])
        /\ pc = "done" =>
               /\ events # << >>
               /\ result = (IF promise.state = "resolved" THEN << 0 >> ELSE << 1 >>)
               /\ events[1].type = "error" => stderr = << ErrorLine(child.error[1]) >>

\* C15 witness: the child emitted an error and then closed with code 0, and main
\* returned 1 with the message of the spawn error
C15_Witness ==
    /\ pc = "done"
    /\ events = << [ type |-> "error", code |-> << >> ], [ type |-> "close", code |-> << 0 >> ] >>
    /\ result = << 1 >>
    /\ StrEach(stderr) = << "ntest: spawn node ENOENT\n" >>

\* the positional arguments given before the "--" separator
PositionalsBefore == SubSeq(positionals, 1, Len(positionals) - Len(Passthrough))

\* C16: the arguments after "--" change none of the parameters built from the options:
\* node is spawned with the parameters built from the configuration, the flags and the
\* files given before "--", followed by the arguments after "--"; so a configuration's
\* files stay when the command line gives only "-- <args>".
\* parseArgs gives the arguments after "--" as positionals, and main takes all the
\* positionals as the files, in place of the configured ones, so this does not hold.
C16_PassthroughKeptApart ==
    (Spawned /\ SeparatorAt > 0) =>
        SpawnedParams
            = BuildParams(MergeOptions(config, values, PositionalsBefore),
                          ParseInt(nodeVersionText))
              \o Passthrough

\* findPackageRoot was called and has returned or thrown
SearchEnded == examined # << >> /\ pc # "findRoot"

NoRootLine == ErrorLine(<< "Unable to locate package.json" >>)

\* C17: findPackageRoot examines the working directory and then the directories above
\* it, one after the other and each at most once, going on only from a directory
\* without package.json, so it ends within as many steps as there are directories; it
\* returns the nearest directory with package.json, and it fails with "Unable to
\* locate package.json" exactly when no directory up to the filesystem root has one
C17_NearestPackageRoot ==
    /\ Len(examined) <= Len(Ancestors)
    /\ \A i \in 1..Len(examined) : examined[i] = Ancestors[i]
    /\ \A i \in 1..(Len(examined) - 1) : ~HasPackageJson(examined[i])
    /\ pc = "findRoot" =>
           /\ Len(examined) < Len(Ancestors)
           /\ searchDir = Ancestors[Len(examined) + 1]
           /\ \A i \in 1..Len(examined) : ~HasPackageJson(examined[i])
    /\ SearchEnded =>
           IF RootExists
           THEN /\ searchDir = NearestRoot
                /\ examined[Len(examined)] = NearestRoot
                /\ stderr # << NoRootLine >>
           ELSE /\ examined = Ancestors
                /\ pc = "done"
                /\ result = << 1 >>
                /\ stderr = << NoRootLine >>
    /\ stderr = << NoRootLine >> => (SearchEnded /\ ~RootExists)

\* C17 witness: from a directory two below the filesystem root, the search passed the
\* working directory and returned the directory above it, which holds package.json as
\* the filesystem root does
C17_Witness ==
    /\ pc = "defaults"
    /\ Len(fs.cwd) = 2
    /\ examined = << DirAt(2), DirAt(1) >>
    /\ searchDir = DirAt(1)
    /\ HasPackageJson(<< >>)

\* readConfig returned a configuration and main has returned
ConfiguredRunEnded ==
    /\ pc = "done"
    /\ ParseArgs(args).error = << >>
    /\ ~AsksHelpOrVersion
    /\ values["config"] # << >> \/ RootExists
    /\ ReadError(PrioritySource) = << >>

\* the text given to the flag is no number
NonNumeric(key) == values[key] # << >> /\ Number(values[key][1]) = NaN

\* C18: the merge and the translation cannot fail and pass malformed values on as they
\* are: once the configuration is read, whatever it holds, node is spawned, and a text
\* that is no number given to a numeric flag is the text of its parameter.
\* The merge throws on a document that is no record, and Number() turns the text of a
\* numeric flag into a number ("abc" into NaN), so this does not hold.
C18_MergeAndTranslationTotal ==
    /\ ConfiguredRunEnded => Spawned
    /\ (Spawned /\ NonNumeric("timeout")) =>
           ValuesWith(SpawnedParams, "--test-timeout=") = values["timeout"]
    /\ (Spawned /\ NonNumeric("coverage-lines") /\ MergedCoverage.enabled = << TRUE >>) =>
           ValuesWith(SpawnedParams, "--test-coverage-lines=") = values["coverage-lines"]

====
